---- MODULE Spec2Model ----
(***************************************************************************)
(* Auto Form Recovery: the content script (contentScript.js, the second    *)
(* half of src/autoFormRecovery/popup.js) as a state machine.              *)
(*                                                                         *)
(* JavaScript strings are sequences of one-character strings, so that      *)
(* concatenation, includes(), toLowerCase() and Number.toString() are      *)
(* computed and not assumed.                                               *)
(***************************************************************************)
EXTENDS Integers, Sequences, FiniteSets, TLC

(***************************************************************************)
(* String literals of the source.                                          *)
(***************************************************************************)
sEmpty == <<>>
sInput == <<"i","n","p","u","t">>
sTextarea == <<"t","e","x","t","a","r","e","a">>
sSelect == <<"s","e","l","e","c","t">>
sPassword == <<"p","a","s","s","w","o","r","d">>
sHidden == <<"h","i","d","d","e","n">>
sFile == <<"f","i","l","e">>
sText == <<"t","e","x","t">>
sEmail == <<"e","m","a","i","l">>
sTel == <<"t","e","l">>
sPhone == <<"p","h","o","n","e">>
sNumber == <<"n","u","m","b","e","r">>
sCheckbox == <<"c","h","e","c","k","b","o","x">>
sRadio == <<"r","a","d","i","o">>
sUser == <<"u","s","e","r">>
sLogin == <<"l","o","g","i","n">>
sSelectOne == <<"s","e","l","e","c","t","-","o","n","e">>
sSubmit == <<"s","u","b","m","i","t">>
sHasOwnProperty == <<"h","a","s","O","w","n","P","r","o","p","e","r","t","y">>
sProto == <<"_","_","p","r","o","t","o","_","_">>

(* keywords of popup.js:260 *)
keywords ==
  { sLogin,
    <<"l","o","g","-","i","n">>,
    <<"s","i","g","n","-","i","n">>,
    <<"s","i","g","n","i","n">>,
    <<"s","i","g","n","_","i","n">>,
    <<"a","u","t","h">>,
    <<"a","u","t","h","e","n","t","i","c","a","t","e">>,
    <<"a","u","t","h","e","n","t","i","c","a","t","i","o","n">>,
    <<"a","c","c","o","u","n","t">>,
    <<"p","a","s","s","w","d">> }

(***************************************************************************)
(* String primitives.                                                      *)
(***************************************************************************)
UpperChars == <<"A","B","C","D","E","F","G","H","I","J","K","L","M",
                "N","O","P","Q","R","S","T","U","V","W","X","Y","Z">>
LowerChars == <<"a","b","c","d","e","f","g","h","i","j","k","l","m",
                "n","o","p","q","r","s","t","u","v","w","x","y","z">>

LowerMap == [c \in {UpperChars[i] : i \in 1..26} |->
               LowerChars[CHOOSE i \in 1..26 : UpperChars[i] = c]]

(* one character of String.prototype.toLowerCase *)
LowerChar(c) == IF c \in DOMAIN LowerMap THEN LowerMap[c] ELSE c

(* String.prototype.toLowerCase *)
toLowerCase(s) == [i \in 1..Len(s) |-> LowerChar(s[i])]

(* String.prototype.includes *)
includes(s, k) ==
  \E i \in 0..(Len(s) - Len(k)) : \A j \in 1..Len(k) : s[i + j] = k[j]

Digits == <<"0","1","2","3","4","5","6","7","8","9">>

(* Number.prototype.toString for a non-negative integer *)
RECURSIVE NatToString(_)
NatToString(n) ==
  IF n < 10 THEN <<Digits[n + 1]>>
  ELSE NatToString(n \div 10) \o <<Digits[(n % 10) + 1]>>

(* Number.prototype.toString, radix 10 *)
toString(n) == IF n < 0 THEN <<"-">> \o NatToString(0 - n) ELSE NatToString(n)

(* Array.prototype.indexOf: first position, zero-based, or -1 *)
indexOf(seq, x) ==
  IF \E i \in 1..Len(seq) : seq[i] = x
    THEN (CHOOSE i \in 1..Len(seq) : seq[i] = x /\ \A j \in 1..(i - 1) : seq[j] # x) - 1
    ELSE 0 - 1

(***************************************************************************)
(* DOM controls.  A control is a record                                    *)
(*   tag          el.tagName.toLowerCase()                                 *)
(*   type         the type attribute as written (<<>> when absent)         *)
(*   name, id     the attributes (<<>> when absent)                        *)
(*   value        el.value                                                 *)
(*   checked      el.checked                                               *)
(*   autocomplete el.autocomplete ("" , "on" or "off")                     *)
(*   autorecovery the data-autorecovery attribute ("null" when absent)     *)
(***************************************************************************)
InputTypes ==
  { sText, sEmail, sTel, sNumber, sPassword, sHidden, sFile, sCheckbox, sRadio }

(* el.type: the type attribute lower-cased, "text" for a missing or unknown one *)
ElType(el) ==
  IF el.tag = sInput
    THEN IF toLowerCase(el.type) \in InputTypes THEN toLowerCase(el.type) ELSE sText
  ELSE IF el.tag = sTextarea THEN sTextarea
  ELSE IF el.tag = sSelect THEN sSelectOne
  ELSE sSubmit

(* getAttribute('type') || '' lower-cased *)
TypeAttr(el) == toLowerCase(el.type)

shouldSaveField_noHidden(el) ==
  IF el.tag = sInput /\ TypeAttr(el) \in {sPassword, sFile} THEN FALSE
  ELSE IF el.autocomplete = "off" THEN FALSE
  ELSE IF el.autorecovery = "false" THEN FALSE
  ELSE TRUE

shouldSaveField_noOptOut(el) ==
  IF el.tag = sInput /\ TypeAttr(el) \in {sPassword, sHidden, sFile} THEN FALSE
  ELSE IF el.autocomplete = "off" THEN FALSE
  ELSE TRUE

(* shouldSaveField, popup.js:216-225 *)
shouldSaveField(el) ==
  IF el.tag = sInput /\ TypeAttr(el) \in {sPassword, sHidden, sFile} THEN FALSE
  ELSE IF el.autocomplete = "off" THEN FALSE
  ELSE IF el.autorecovery = "false" THEN FALSE
  ELSE TRUE

(***************************************************************************)
(* Forms.  A form is a record                                              *)
(*   id, name, class, action   the attributes (<<>> when absent)           *)
(*   controls                  form.elements, in tree order                *)
(* Every listed control is a descendant of the form.                       *)
(***************************************************************************)

IsInput(el) == el.tag = sInput

(* the filter of textInputs, popup.js:266-269 *)
IsTextInput(el) ==
  /\ IsInput(el)
  /\ \/ TypeAttr(el) \in {sText, sEmail, sTel, sPhone, sNumber}
     \/ TypeAttr(el) = sEmpty

(* the filter of emailInputs, popup.js:270-275 *)
IsEmailInput(el) ==
  /\ IsInput(el)
  /\ \/ TypeAttr(el) = sEmail
     \/ includes(toLowerCase(el.name), sEmail)
     \/ includes(toLowerCase(el.id), sEmail)

(* the filter of passwordInputs, popup.js:276; also input[type="password"] *)
IsPasswordInput(el) == IsInput(el) /\ TypeAttr(el) = sPassword

IsTextArea(el) == el.tag = sTextarea

(* the filter of userInputs, popup.js:285-289 *)
IsUserInput(el) ==
  /\ IsInput(el)
  /\ \/ includes(toLowerCase(el.name), sUser)
     \/ includes(toLowerCase(el.id), sUser)
     \/ includes(toLowerCase(el.name), sLogin)
     \/ includes(toLowerCase(el.id), sLogin)

(* the arrays of isLoginForm, popup.js:265-289, as sets of positions *)
inputs(form) == {i \in 1..Len(form.controls) : IsInput(form.controls[i])}

textInputs(form) == {i \in inputs(form) : IsTextInput(form.controls[i])}

emailInputs(form) == {i \in inputs(form) : IsEmailInput(form.controls[i])}

passwordInputs(form) == {i \in inputs(form) : IsPasswordInput(form.controls[i])}

textAreas(form) == {i \in 1..Len(form.controls) : IsTextArea(form.controls[i])}

userInputs(form) == {i \in inputs(form) : IsUserInput(form.controls[i])}

(* attrs, popup.js:253-258 *)
FormAttrs(form) ==
  toLowerCase(form.id \o <<" ">> \o form.name \o <<" ">> \o form.class
              \o <<" ">> \o form.action)

(* settings.ignoreLoginForms === false *)
LoginOptOut(settings) ==
  "ignoreLoginForms" \notin settings.missing /\ ~settings.ignoreLoginForms

isLoginForm_noOptOut(form, settings) ==
  IF Cardinality(passwordInputs(form)) > 0 THEN TRUE
  ELSE IF \E k \in keywords : includes(FormAttrs(form), k) THEN TRUE
  ELSE IF Cardinality(passwordInputs(form)) = 0 /\ Cardinality(textAreas(form)) = 0
    THEN \/ /\ Cardinality(emailInputs(form)) >= 1
            /\ Cardinality(textInputs(form)) <= 1
            /\ Cardinality(inputs(form)) <= 3
         \/ /\ Cardinality(userInputs(form)) >= 1
            /\ Cardinality(inputs(form)) <= 3
  ELSE FALSE

isLoginForm_textareaIgnored(form, settings) ==
  IF LoginOptOut(settings) THEN FALSE
  ELSE IF Cardinality(passwordInputs(form)) > 0 THEN TRUE
  ELSE IF \E k \in keywords : includes(FormAttrs(form), k) THEN TRUE
  ELSE \/ /\ Cardinality(emailInputs(form)) >= 1
          /\ Cardinality(textInputs(form)) <= 1
          /\ Cardinality(inputs(form)) <= 3
       \/ /\ Cardinality(userInputs(form)) >= 1
          /\ Cardinality(inputs(form)) <= 3

(* isLoginForm, popup.js:245-295 *)
isLoginForm(form, settings) ==
  IF LoginOptOut(settings) THEN FALSE
  ELSE IF Cardinality(passwordInputs(form)) > 0 THEN TRUE
  ELSE IF \E k \in keywords : includes(FormAttrs(form), k) THEN TRUE
  ELSE IF Cardinality(passwordInputs(form)) = 0 /\ Cardinality(textAreas(form)) = 0
    THEN \/ /\ Cardinality(emailInputs(form)) >= 1
            /\ Cardinality(textInputs(form)) <= 1
            /\ Cardinality(inputs(form)) <= 3
         \/ /\ Cardinality(userInputs(form)) >= 1
            /\ Cardinality(inputs(form)) <= 3
  ELSE FALSE

(***************************************************************************)
(* Bounds of the model.                                                    *)
(***************************************************************************)
MaxEvents == 4
MaxLoads == 2
TicksPerDay == 1
MaxNow == 2 * TicksPerDay + 1

(***************************************************************************)
(* The page of the model: https://ex.io/p                                  *)
(***************************************************************************)
sOrigin == <<"h","t","t","p","s",":","/","/","e","x",".","i","o">>
sPathname == <<"/","p">>
sHostname == <<"e","x",".","i","o">>
sSep == <<":",":">>
sUnderscore == <<"_">>
sContact == <<"c","o","n","t","a","c","t">>
sMsg == <<"m","s","g">>
sHi == <<"h","i">>

Ctl(tag, type, name, id, value, checked, ac, ar) ==
  [tag |-> tag, type |-> type, name |-> name, id |-> id, value |-> value,
   checked |-> checked, autocomplete |-> ac, autorecovery |-> ar]

Form(id, name, class, action, controls) ==
  [id |-> id, name |-> name, class |-> class, action |-> action,
   controls |-> controls, attached |-> FALSE]

FormIds == {1, 2}

(* the page's HTML: two forms, the first with an id, the second with none *)
PageForms ==
  [f \in FormIds |->
    IF f = 1
      THEN Form(sContact, sEmpty, sEmpty, sEmpty,
             << Ctl(sInput, sEmpty, sMsg, sEmpty, sEmpty, FALSE, "", "null"),
                Ctl(sInput, sHidden, <<"c","s","r","f">>, sEmpty, <<"t">>, FALSE, "", "null"),
                Ctl(sInput, sText, <<"c","c">>, sEmpty, <<"4">>, FALSE, "off", "null") >>)
      ELSE Form(sEmpty, sEmpty, sEmpty, sEmpty,
             << Ctl(sInput, sCheckbox, <<"o","p","t">>, sEmpty, <<"a">>, FALSE, "", "null"),
                Ctl(sTextarea, sEmpty, sEmpty, sEmpty, <<"n">>, FALSE, "", "null"),
                Ctl(sInput, sText, <<"x">>, sEmpty, <<"s">>, FALSE, "", "false") >>)]

PageDocForms == <<1, 2>>

PasswordControl == Ctl(sInput, sPassword, <<"p","w">>, sEmpty, <<"p","w","d">>, FALSE, "", "null")

(***************************************************************************)
(* Settings.  A field the stored record lacks is named in "missing".       *)
(***************************************************************************)
Settings(stored, enabled, days, domains, ilf) ==
  [stored |-> stored, enabled |-> enabled, retentionDays |-> days,
   ignoreDomains |-> domains, ignoreLoginForms |-> ilf, missing |-> {}]

(* extensionSettings as constructed, popup.js:199-205 *)
DefaultSettings == Settings(TRUE, TRUE, 30, <<>>, TRUE)

(* the "settings" record of the store when the page loads *)
StoredSettingsChoices ==
  { Settings(FALSE, TRUE, 30, <<>>, TRUE),
    Settings(TRUE, TRUE, 1, <<>>, FALSE),
    Settings(TRUE, FALSE, 1, <<>>, TRUE),
    Settings(TRUE, TRUE, 1, <<sHostname>>, TRUE) }

(***************************************************************************)
(* State.                                                                  *)
(***************************************************************************)
VARIABLES
  location,          \* window.location: search and hash
  storedSettings,    \* chrome.storage.local, key "settings"
  store,             \* chrome.storage.local, every other key: FormKey -> Snapshot
  extensionSettings, \* the content script's cached settings
  pc,                \* "loading", "observing", "suppressed" or "failed"
  forms,             \* the form elements of the page, in or out of the document
  docForms,          \* document.forms
  listeners,         \* per form, the debouncedSave closures attached
  timers,            \* per form, the debounce timers pending
  records,           \* mutation records not yet delivered to the observer
  reads,             \* storage reads whose callback has not run yet, in order
  noticeVisible,     \* a .auto-form-recovery-notice element is in the document
  now,               \* Date.now()
  events,            \* events of the page's environment so far
  loads,             \* page loads so far
  original,          \* the form values before a round trip
  purge,             \* the background script's sweep: where it is, what it has read
  clearing,          \* the popup's clear-site handler: where it is, what it has read
  last               \* what the last step did

vars == << location, storedSettings, store, extensionSettings, pc, forms, docForms,
           listeners, timers, records, reads, noticeVisible, now,
           events, loads, original, purge, clearing, last >>

(***************************************************************************)
(* JavaScript values held in a snapshot: a string or a boolean.            *)
(***************************************************************************)
JsString(s) == [t |-> "string", s |-> s, b |-> FALSE]
JsBoolean(b) == [t |-> "boolean", s |-> sEmpty, b |-> b]

(* what "el.checked = v" stores *)
ToBoolean(v) == IF v.t = "boolean" THEN v.b ELSE v.s # sEmpty

(* what "el.value = v" stores *)
ToStringValue(v) ==
  IF v.t = "string" THEN v.s
  ELSE IF v.b THEN <<"t","r","u","e">> ELSE <<"f","a","l","s","e">>

(* a function (an object) with key k set to v *)
Put(obj, k, v) == [x \in (DOMAIN obj) \cup {k} |-> IF x = k THEN v ELSE obj[x]]

(* a function (an object) without key k *)
Del(obj, k) == [x \in (DOMAIN obj) \ {k} |-> obj[x]]

(***************************************************************************)
(* getFormKey, popup.js:228-236.  documentForms is document.forms, f the   *)
(* form element, form its attributes.                                      *)
(***************************************************************************)
getFormKey_href(form, f, documentForms, loc) ==
  LET url == loc.origin \o loc.pathname \o loc.search \o loc.hash
      identifier == IF form.id # sEmpty THEN form.id ELSE form.name
      idx == IF identifier = sEmpty THEN toString(indexOf(documentForms, f)) ELSE sEmpty
  IN url \o sSep \o (IF identifier # sEmpty THEN identifier ELSE idx)

getFormKey(form, f, documentForms, loc) ==
  LET url == loc.origin \o loc.pathname
      identifier == IF form.id # sEmpty THEN form.id ELSE form.name
      idx == IF identifier = sEmpty THEN toString(indexOf(documentForms, f)) ELSE sEmpty
  IN url \o sSep \o (IF identifier # sEmpty THEN identifier ELSE idx)

(***************************************************************************)
(* The per-field key, popup.js:308-312 and 349-354; index is zero-based.   *)
(***************************************************************************)
IsCheckable(el) == ElType(el) \in {sCheckbox, sRadio}

(* tag !== 'input' && tag !== 'textarea' && tag !== 'select' is false *)
IsSupportedTag(el) == el.tag \in {sInput, sTextarea, sSelect}

FieldKey(el, index) ==
  LET fieldKey ==
        IF el.name # sEmpty THEN el.name
        ELSE IF el.id # sEmpty THEN el.id
        ELSE el.tag \o sUnderscore \o toString(index)
  IN IF IsCheckable(el) /\ el.name # sEmpty
       THEN el.name \o sUnderscore \o el.value
       ELSE fieldKey

Recorded_valueOnly(el) == JsString(el.value)

(* what saveFormData records of a control, popup.js:309-316 *)
Recorded(el) == IF IsCheckable(el) THEN JsBoolean(el.checked) ELSE JsString(el.value)

(* the forEach of saveFormData, popup.js:303-317, from control i on.       *)
(* An assignment to data['__proto__'] of a primitive creates no property.  *)
RECURSIVE SaveLoop(_, _, _)
SaveLoop(controls, i, data) ==
  IF i > Len(controls) THEN data
  ELSE LET el == controls[i]
           fieldKey == FieldKey(el, i - 1)
       IN IF ~shouldSaveField(el) THEN SaveLoop(controls, i + 1, data)
          ELSE IF ~IsSupportedTag(el) THEN SaveLoop(controls, i + 1, data)
          ELSE IF fieldKey = sProto THEN SaveLoop(controls, i + 1, data)
          ELSE SaveLoop(controls, i + 1, Put(data, fieldKey, Recorded(el)))

(* data of saveFormData, popup.js:302-317 *)
SnapshotData(form) == SaveLoop(form.controls, 1, <<>>)

(***************************************************************************)
(* The forEach of restoreFormData's callback, popup.js:343-363.            *)
(***************************************************************************)
(* "el.checked = true" on a radio button unchecks the others of its group *)
Uncheck(controls, i) ==
  [j \in 1..Len(controls) |->
    IF /\ j # i
       /\ ElType(controls[j]) = sRadio
       /\ ElType(controls[i]) = sRadio
       /\ controls[i].name # sEmpty
       /\ controls[j].name = controls[i].name
      THEN [controls[j] EXCEPT !.checked = FALSE]
      ELSE controls[j]]

AssignControl(controls, i, v) ==
  IF IsCheckable(controls[i])
    THEN LET set == [controls EXCEPT ![i].checked = ToBoolean(v)]
         IN IF ToBoolean(v) THEN Uncheck(set, i) ELSE set
    ELSE [controls EXCEPT ![i].value = ToStringValue(v)]

(* r is [controls, count]: the controls so far and the assignments made *)
RECURSIVE RestoreLoop(_, _, _)
RestoreLoop(r, i, saved) ==
  IF i > Len(r.controls) THEN r
  ELSE LET el == r.controls[i]
           fieldKey == FieldKey(el, i - 1)
       IN IF ~shouldSaveField(el) THEN RestoreLoop(r, i + 1, saved)
          ELSE IF ~IsSupportedTag(el) THEN RestoreLoop(r, i + 1, saved)
          ELSE IF sHasOwnProperty \in DOMAIN saved
            THEN r   \* saved.hasOwnProperty is not a function: the callback throws
          ELSE IF fieldKey \in DOMAIN saved
            THEN RestoreLoop([controls |-> AssignControl(r.controls, i, saved[fieldKey]),
                              count |-> r.count + 1], i + 1, saved)
          ELSE RestoreLoop(r, i + 1, saved)

RestoreControls(form, saved) ==
  RestoreLoop([controls |-> form.controls, count |-> 0], 1, saved)

(* retentionMs, popup.js:337, in clock ticks *)
RetentionMs(settings) ==
  (IF "retentionDays" \in settings.missing \/ settings.retentionDays = 0
     THEN 30 ELSE settings.retentionDays) * TicksPerDay

(* entry.timestamp && Date.now() - entry.timestamp > retentionMs, popup.js:339 *)
IsExpired(entry, settings, t) ==
  entry.timestamp # 0 /\ t - entry.timestamp > RetentionMs(settings)

(***************************************************************************)
(* What the last step did (history, read by the properties only).          *)
(***************************************************************************)
NoEvent ==
  [kind |-> "none", form |-> 0, key |-> sEmpty, data |-> <<>>, controls |-> <<>>,
   login |-> FALSE, found |-> FALSE, timestamp |-> 0, assigned |-> 0,
   noticeBefore |-> FALSE, noticeShown |-> FALSE, removed |-> FALSE, result |-> FALSE]

(***************************************************************************)
(* chrome.storage.local.  The store carries out the calls of one page in   *)
(* the order they are made, so a call takes effect when it is made; only   *)
(* the callback of a read runs later, with what the read found.            *)
(***************************************************************************)
(* chrome.storage.local.get(key, ...): the result object *)
StorageGet(key) ==
  IF key \in DOMAIN store
    THEN [found |-> TRUE, data |-> store[key].data, timestamp |-> store[key].timestamp]
    ELSE [found |-> FALSE, data |-> <<>>, timestamp |-> 0]

(***************************************************************************)
(* Discovery.  st is [forms, listeners, reads]: the part of the state a    *)
(* handler changes as it runs.                                             *)
(***************************************************************************)
restoreFormData_noRead(st, f, settings) == st

(* restoreFormData up to the storage call, popup.js:328-332 *)
restoreFormData(st, f, settings) ==
  IF isLoginForm(st.forms[f], settings) THEN st
  ELSE LET key == getFormKey(st.forms[f], f, docForms, location)
       IN [st EXCEPT !.reads = Append(@, [form |-> f, key |-> key, result |-> StorageGet(key)])]

monitorForm_noFlag(st, f, settings) ==
  IF isLoginForm(st.forms[f], settings) THEN st
  ELSE [st EXCEPT !.forms[f].attached = TRUE, !.listeners[f] = @ + 1]

(* monitorForm, popup.js:397-406 *)
monitorForm(st, f, settings) ==
  IF st.forms[f].attached THEN st
  ELSE IF isLoginForm(st.forms[f], settings) THEN st
  ELSE [st EXCEPT !.forms[f].attached = TRUE, !.listeners[f] = @ + 1]

ProcessForm_restoreOnly(st, f, settings) ==
  IF ~isLoginForm(st.forms[f], settings)
    THEN restoreFormData(st, f, settings)
    ELSE st

(* the body of the three discovery loops, popup.js:427-430, 438-441, 445-448 *)
ProcessForm(st, f, settings) ==
  IF ~isLoginForm(st.forms[f], settings)
    THEN monitorForm(restoreFormData(st, f, settings), f, settings)
    ELSE st

(* Array.from(document.forms).forEach, popup.js:426-431 *)
RECURSIVE ProcessForms(_, _, _)
ProcessForms(st, fs, settings) ==
  IF fs = <<>> THEN st
  ELSE ProcessForms(ProcessForm(st, Head(fs), settings), Tail(fs), settings)

(* the observer's callback over the added nodes, popup.js:433-454 *)
RECURSIVE ProcessRecords(_, _, _)
ProcessRecords(st, rs, settings) ==
  IF rs = <<>> THEN st
  ELSE LET node == Head(rs)
           next == IF node.tagName = "FORM"
                     THEN ProcessForm(st, node.form, settings)
                     ELSE ProcessForms(st, node.nested, settings)
       IN ProcessRecords(next, Tail(rs), settings)

(* !extensionSettings.enabled *)
Disabled(settings) == "enabled" \in settings.missing \/ ~settings.enabled

(* extensionSettings.ignoreDomains.includes(hostname) is evaluated on an   *)
(* undefined ignoreDomains: a TypeError leaves the callback, popup.js:421  *)
InitThrows(settings) == ~Disabled(settings) /\ "ignoreDomains" \in settings.missing

Suppressed_enabledOnly(settings) == Disabled(settings)

(* !extensionSettings.enabled || extensionSettings.ignoreDomains.includes(hostname) *)
Suppressed(settings) ==
  \/ Disabled(settings)
  \/ \E i \in 1..Len(settings.ignoreDomains) : settings.ignoreDomains[i] = location.hostname

(***************************************************************************)
(* start: the callback of loadSettings runs initAutoFormRecovery,          *)
(* popup.js:208-214, 418-459, 462-466.                                     *)
(***************************************************************************)
LoadSettingsCallback ==
  /\ pc = "loading"
  /\ LET settings == IF storedSettings.stored THEN storedSettings ELSE extensionSettings
         st == ProcessForms([forms |-> forms, listeners |-> listeners, reads |-> reads],
                            docForms, settings)
     IN /\ extensionSettings' = settings
        /\ IF InitThrows(settings)
             THEN /\ pc' = "failed"
                  /\ UNCHANGED << forms, listeners, reads >>
             ELSE IF Suppressed(settings)
             THEN /\ pc' = "suppressed"
                  /\ UNCHANGED << forms, listeners, reads >>
             ELSE /\ pc' = "observing"
                  /\ forms' = st.forms
                  /\ listeners' = st.listeners
                  /\ reads' = st.reads
  /\ last' = NoEvent
  /\ UNCHANGED << location, storedSettings, store, docForms, timers, records,
                  noticeVisible, now, events, loads, original,
                  purge, clearing >>

(* the MutationObserver callback, popup.js:433-454: a microtask after the *)
(* script that changed the document                                       *)
ObserverCallback ==
  /\ pc = "observing"
  /\ records # <<>>
  /\ LET st == ProcessRecords([forms |-> forms, listeners |-> listeners, reads |-> reads],
                              records, extensionSettings)
     IN /\ forms' = st.forms
        /\ listeners' = st.listeners
        /\ reads' = st.reads
  /\ records' = <<>>
  /\ last' = NoEvent
  /\ UNCHANGED << location, storedSettings, store, extensionSettings, pc, docForms, timers,
                  noticeVisible, now, events, loads, original,
                  purge, clearing >>

(***************************************************************************)
(* The document changes under the page's own scripts.                      *)
(***************************************************************************)
InDocument(f) == \E i \in 1..Len(docForms) : docForms[i] = f

Queue(node) == IF pc = "observing" THEN Append(records, node) ELSE records

(* an added node: its tag, the form it is (0 if it is no form) and the     *)
(* forms node.querySelectorAll('form') finds inside it                     *)
AddedNode(tagName, f, nested) == [tagName |-> tagName, form |-> f, nested |-> nested]

RemoveForm(f) ==
  /\ events < MaxEvents
  /\ InDocument(f)
  /\ docForms' = SelectSeq(docForms, LAMBDA g : g # f)
  /\ events' = events + 1
  /\ last' = NoEvent
  /\ UNCHANGED << location, storedSettings, store, extensionSettings, pc, forms, listeners,
                  timers, records, reads, noticeVisible, now, loads, original,
                  purge, clearing >>

(* appendChild of the form itself, or of an element that holds it *)
InsertForm(f, tagName) ==
  /\ events < MaxEvents
  /\ ~InDocument(f)
  /\ docForms' = Append(docForms, f)
  /\ records' = Queue(IF tagName = "FORM" THEN AddedNode(tagName, f, <<>>)
                                            ELSE AddedNode(tagName, 0, <<f>>))
  /\ events' = events + 1
  /\ last' = NoEvent
  /\ UNCHANGED << location, storedSettings, store, extensionSettings, pc, forms, listeners,
                  timers, reads, noticeVisible, now, loads, original,
                  purge, clearing >>

(* appendChild of form f with form g inside it (a script can nest forms,   *)
(* the parser cannot).  form.querySelectorAll in isLoginForm also sees the *)
(* controls of the inner form: the step is taken for forms without a       *)
(* password input, which classify alike with and without the other's       *)
(* controls.                                                               *)
InsertNested(f, g) ==
  /\ events < MaxEvents
  /\ f # g
  /\ ~InDocument(f)
  /\ ~InDocument(g)
  /\ Cardinality(passwordInputs(forms[f])) = 0
  /\ Cardinality(passwordInputs(forms[g])) = 0
  /\ docForms' = docForms \o <<f, g>>
  /\ records' = Queue(AddedNode("FORM", f, <<g>>))
  /\ events' = events + 1
  /\ last' = NoEvent
  /\ UNCHANGED << location, storedSettings, store, extensionSettings, pc, forms, listeners,
                  timers, reads, noticeVisible, now, loads, original,
                  purge, clearing >>

(* a password input is appended to the form; the added node holds no form, *)
(* so the observer's callback does nothing for it                          *)
AddPasswordInput(f) ==
  /\ events < MaxEvents
  /\ Cardinality(passwordInputs(forms[f])) = 0
  /\ forms' = [forms EXCEPT ![f].controls = Append(@, PasswordControl)]
  /\ events' = events + 1
  /\ last' = NoEvent
  /\ UNCHANGED << location, storedSettings, store, extensionSettings, pc, docForms, listeners,
                  timers, records, reads, noticeVisible, now, loads, original,
                  purge, clearing >>

(***************************************************************************)
(* The user edits the first control of a form: an input or change event    *)
(* reaches every debouncedSave attached, popup.js:403-404, 411-414.        *)
(***************************************************************************)
EditValues == {sEmpty, sHi}

debounce_noClear(timeout, closures) == timeout + closures

(* the timers pending after an event reached the closures made by debounce, *)
(* popup.js:409-415: each clears its timer and sets it again                *)
debounce(timeout, closures) == closures

Edited(el) ==
  IF IsCheckable(el) THEN {[el EXCEPT !.checked = ~el.checked]}
  ELSE {[el EXCEPT !.value = v] : v \in EditValues \ {el.value}}

Edit(f) ==
  /\ events < MaxEvents
  /\ records = <<>>
  /\ InDocument(f)
  /\ \E el \in Edited(forms[f].controls[1]) :
       forms' = [forms EXCEPT ![f].controls[1] = el]
  /\ timers' = [timers EXCEPT ![f] = debounce(@, listeners[f])]
  /\ events' = events + 1
  /\ last' = NoEvent
  /\ UNCHANGED << location, storedSettings, store, extensionSettings, pc, docForms, listeners,
                  records, reads, noticeVisible, now, loads, original,
                  purge, clearing >>

(***************************************************************************)
(* saveFormData, popup.js:298-325, run by a debounce timer, 409-415.       *)
(***************************************************************************)
SaveEvent(f, form, key, data, login) ==
  [NoEvent EXCEPT !.kind = "save", !.form = f, !.key = key, !.data = data,
                  !.controls = form.controls, !.login = login, !.timestamp = now]

saveFormData_merge(f, form, settings) ==
  LET key == getFormKey(form, f, docForms, location)
      data == SnapshotData(form)
      kept == IF key \in DOMAIN store THEN store[key].data ELSE <<>>
  IN IF isLoginForm(form, settings)
       THEN [store |-> store, event |-> [NoEvent EXCEPT !.kind = "save-skipped", !.form = f]]
       ELSE [store |-> Put(store, key, [data |-> data @@ kept, timestamp |-> now]),
             event |-> SaveEvent(f, form, key, data, isLoginForm(form, settings))]

(* the store after saveFormData, and what it did *)
saveFormData(f, form, settings) ==
  LET key == getFormKey(form, f, docForms, location)
      data == SnapshotData(form)
  IN IF isLoginForm(form, settings)
       THEN [store |-> store, event |-> [NoEvent EXCEPT !.kind = "save-skipped", !.form = f]]
       ELSE [store |-> Put(store, key, [data |-> data, timestamp |-> now]),
             event |-> SaveEvent(f, form, key, data, isLoginForm(form, settings))]

TimerFire(f) ==
  /\ timers[f] > 0
  /\ records = <<>>
  /\ timers' = [timers EXCEPT ![f] = @ - 1]
  /\ LET r == saveFormData(f, forms[f], extensionSettings)
     IN /\ store' = r.store
        /\ last' = r.event
  /\ UNCHANGED << location, storedSettings, extensionSettings, pc, forms, docForms,
                  listeners, records, reads, noticeVisible, now, events, loads, original,
                  purge, clearing >>

(***************************************************************************)
(* The callback of restoreFormData, popup.js:332-368.                      *)
(***************************************************************************)
showRestoreNotification_always(visible) == [visible |-> TRUE, shown |-> TRUE]

(* showRestoreNotification, popup.js:372-394: the notice after the call, *)
(* and whether the call added one                                        *)
showRestoreNotification(visible) ==
  IF visible THEN [visible |-> TRUE, shown |-> FALSE]
  ELSE [visible |-> TRUE, shown |-> TRUE]

RestoreEvent(f, form, key, result, settings) ==
  [NoEvent EXCEPT !.kind = "restore", !.form = f, !.key = key, !.controls = form.controls,
                  !.login = isLoginForm(form, settings), !.found = result.found,
                  !.data = result.data, !.timestamp = result.timestamp,
                  !.noticeBefore = noticeVisible]

(* the callback: the form's controls, the store and the notice after it, *)
(* and what it did                                                       *)
restoreCallback(f, form, key, result, settings) ==
  LET ev == RestoreEvent(f, form, key, result, settings)
      r == RestoreControls(form, result.data)
      n == IF r.count > 0 THEN showRestoreNotification(noticeVisible)
           ELSE [visible |-> noticeVisible, shown |-> FALSE]
  IN IF ~result.found
       THEN [controls |-> form.controls, store |-> store, visible |-> noticeVisible,
             event |-> ev]
     ELSE IF IsExpired(result, settings, now)
       THEN [controls |-> form.controls, store |-> Del(store, key),
             visible |-> noticeVisible, event |-> [ev EXCEPT !.removed = TRUE]]
     ELSE [controls |-> r.controls, store |-> store, visible |-> n.visible,
           event |-> [ev EXCEPT !.assigned = r.count, !.noticeShown = n.shown]]

RestoreCallback ==
  /\ reads # <<>>
  /\ records = <<>>
  /\ LET f == Head(reads).form
         r == restoreCallback(f, forms[f], Head(reads).key, Head(reads).result,
                              extensionSettings)
     IN /\ forms' = [forms EXCEPT ![f].controls = r.controls]
        /\ store' = r.store
        /\ noticeVisible' = r.visible
        /\ last' = r.event
  /\ reads' = Tail(reads)
  /\ UNCHANGED << location, storedSettings, extensionSettings, pc, docForms, listeners,
                  timers, records, now, events, loads, original,
                  purge, clearing >>

(* the notice removes itself, popup.js:391-393 *)
NoticeTimeout ==
  /\ noticeVisible
  /\ records = <<>>
  /\ noticeVisible' = FALSE
  /\ last' = NoEvent
  /\ UNCHANGED << location, storedSettings, store, extensionSettings, pc, forms, docForms,
                  listeners, timers, records, reads, now, events, loads, original,
                  purge, clearing >>

(* time passes *)
AdvanceClock ==
  /\ events < MaxEvents
  /\ \E t \in (now + 1)..MaxNow : now' = t
  /\ events' = events + 1
  /\ last' = NoEvent
  /\ UNCHANGED << location, storedSettings, store, extensionSettings, pc, forms, docForms,
                  listeners, timers, records, reads, noticeVisible, loads, original,
                  purge, clearing >>

(* the page is loaded again: a new document and a new content script; the *)
(* reads in flight have no one to call back                               *)
Reload ==
  /\ events < MaxEvents
  /\ loads < MaxLoads
  /\ events' = events + 1
  /\ loads' = loads + 1
  /\ pc' = "loading"
  /\ extensionSettings' = DefaultSettings
  /\ forms' = PageForms
  /\ docForms' = PageDocForms
  /\ listeners' = [f \in FormIds |-> 0]
  /\ timers' = [f \in FormIds |-> 0]
  /\ records' = <<>>
  /\ reads' = <<>>
  /\ noticeVisible' = FALSE
  /\ last' = NoEvent
  /\ UNCHANGED << location, storedSettings, store, now, original,
                  purge, clearing >>

PageLocation ==
  [origin |-> sOrigin, pathname |-> sPathname, hostname |-> sHostname,
   search |-> sEmpty, hash |-> sEmpty]

(***************************************************************************)
(* Another tab on the same page URL: its content script saves a form whose *)
(* id, and so whose FormKey, is that of form 1, with other fields.         *)
(***************************************************************************)
OtherTabForms ==
  { Form(sContact, sEmpty, sEmpty, sEmpty,
         << Ctl(sInput, sText, <<"q">>, sEmpty, v, FALSE, "", "null") >>) :
      v \in {<<"a">>} }

(* the settings a content script has after loadSettings, popup.js:208-214 *)
LoadedSettings == IF storedSettings.stored THEN storedSettings ELSE DefaultSettings

(* the debounce timer of the other tab fires: saveFormData, popup.js:298-325 *)
OtherTabSave ==
  /\ ~InitThrows(LoadedSettings)
  /\ ~Suppressed(LoadedSettings)
  /\ \E form \in OtherTabForms :
       LET r == saveFormData(1, form, LoadedSettings)
       IN /\ store' = r.store
          /\ last' = r.event
  /\ UNCHANGED << location, storedSettings, extensionSettings, pc, forms, docForms,
                  listeners, timers, records, reads, noticeVisible, now, events, loads,
                  original, purge, clearing >>

(***************************************************************************)
(* The background script's sweep, background.js:14-34.  purge.pc is        *)
(* "idle", "settings" (the first read is in flight) or "all" (the second   *)
(* read is in flight); a read's result is what the store held when the     *)
(* read was issued.                                                        *)
(***************************************************************************)
sSettingsKey == <<"s","e","t","t","i","n","g","s">>

(* the popup's clear-site handler at rest *)
ClearIdle == [pc |-> "idle", domain |-> sEmpty, items |-> {}]

PurgeIdle == [pc |-> "idle", items |-> DefaultSettings, retentionDays |-> 30,
              all |-> [settings |-> DefaultSettings, snapshots |-> <<>>]]

(* purgeExpiredEntries: get({settings: {retentionDays: 30}}), background.js:15-17 *)
purgeExpiredEntries ==
  /\ purge.pc = "idle"
  /\ purge' = [purge EXCEPT !.pc = "settings", !.items = LoadedSettings]
  /\ last' = NoEvent
  /\ UNCHANGED << location, storedSettings, store, extensionSettings, pc, forms, docForms,
                  listeners, timers, records, reads, noticeVisible, now, events, loads,
                  original, clearing >>

(* (items.settings && items.settings.retentionDays) || 30, background.js:18 *)
PurgeRetentionDays(items) ==
  IF "retentionDays" \in items.missing \/ items.retentionDays = 0
    THEN 30 ELSE items.retentionDays

(* the callback of the first read: get(null), background.js:18-20 *)
PurgeSettingsCallback ==
  /\ purge.pc = "settings"
  /\ purge' = [purge EXCEPT !.pc = "all",
                            !.retentionDays = PurgeRetentionDays(purge.items),
                            !.all = [settings |-> storedSettings, snapshots |-> store]]
  /\ last' = NoEvent
  /\ UNCHANGED << location, storedSettings, store, extensionSettings, pc, forms, docForms,
                  listeners, timers, records, reads, noticeVisible, now, events, loads,
                  original, clearing >>

(* entry && entry.timestamp, background.js:24: undefined (0) for an entry  *)
(* without a timestamp, as the settings record is                          *)
EntryTimestamp(entry) == IF "timestamp" \in DOMAIN entry THEN entry.timestamp ELSE 0

(* timestamp && now - timestamp > maxAge, background.js:25 *)
PurgeExpired(entry, t, maxAge) ==
  EntryTimestamp(entry) # 0 /\ t - EntryTimestamp(entry) > maxAge

(* keysToRemove, background.js:21-28 *)
keysToRemove(all, t, maxAge) ==
  {k \in DOMAIN all.snapshots : PurgeExpired(all.snapshots[k], t, maxAge)}
    \cup (IF all.settings.stored /\ PurgeExpired(all.settings, t, maxAge)
            THEN {sSettingsKey} ELSE {})

(* the callback of the second read: remove(keysToRemove), background.js:21-31 *)
PurgeListCallback ==
  /\ purge.pc = "all"
  /\ LET keys == keysToRemove(purge.all, now, purge.retentionDays * TicksPerDay)
     IN /\ store' = [k \in (DOMAIN store) \ keys |-> store[k]]
        /\ storedSettings' = IF sSettingsKey \in keys
                               THEN [storedSettings EXCEPT !.stored = FALSE]
                               ELSE storedSettings
        /\ last' = [NoEvent EXCEPT !.kind = "purge", !.removed = (keys # {})]
  /\ purge' = PurgeIdle
  /\ UNCHANGED << location, extensionSettings, pc, forms, docForms, listeners, timers,
                  records, reads, noticeVisible, now, events, loads, original, clearing >>

Init ==
  /\ location = PageLocation
  /\ storedSettings \in StoredSettingsChoices
  /\ store = <<>>
  /\ extensionSettings = DefaultSettings
  /\ pc = "loading"
  /\ forms = PageForms
  /\ docForms = PageDocForms
  /\ listeners = [f \in FormIds |-> 0]
  /\ timers = [f \in FormIds |-> 0]
  /\ records = <<>>
  /\ reads = <<>>
  /\ noticeVisible = FALSE
  /\ now = 0
  /\ events = 0
  /\ loads = 1
  /\ original = <<>>
  /\ purge = PurgeIdle
  /\ clearing = ClearIdle
  /\ last = NoEvent

Next ==
  \/ LoadSettingsCallback
  \/ ObserverCallback
  \/ \E f \in FormIds : RemoveForm(f)
  \/ \E f \in FormIds : InsertForm(f, "FORM")
  \/ \E f \in FormIds : InsertForm(f, "DIV")
  \/ \E f \in FormIds : AddPasswordInput(f)
  \/ \E f \in FormIds : Edit(f)
  \/ \E f \in FormIds : TimerFire(f)
  \/ RestoreCallback
  \/ NoticeTimeout
  \/ AdvanceClock
  \/ Reload

Spec == Init /\ [][Next]_vars

(***************************************************************************)
(* isLoginForm on its own (specification SpecClassify): a form is built up *)
(* control by control and classified.                                      *)
(***************************************************************************)
MaxControls == 4

ClassifyControls ==
  { PasswordControl,
    Ctl(sInput, sEmail, sEmail, sEmpty, sEmpty, FALSE, "", "null"),
    Ctl(sInput, sEmpty, sMsg, sEmpty, sEmpty, FALSE, "", "null"),
    Ctl(sInput, sPhone, <<"p">>, sEmpty, sEmpty, FALSE, "", "null"),
    Ctl(sInput, sHidden, <<"U","s","e","r","I","d">>, sEmpty, sEmpty, FALSE, "", "null"),
    Ctl(sInput, sCheckbox, <<"o","p","t">>, sEmpty, <<"a">>, FALSE, "", "null"),
    Ctl(sTextarea, sEmpty, sMsg, sEmpty, sEmpty, FALSE, "", "null") }

ClassifyForms ==
  { Form(sEmpty, sEmpty, sEmpty, sEmpty, <<>>),
    Form(sContact, sEmpty, sEmpty, sEmpty, <<>>),
    Form(sEmpty, sEmpty, <<"b","o","x"," ","S","i","g","n","I","n">>, sEmpty, <<>>),
    Form(sEmpty, sEmpty, sEmpty, <<"/","a","c","c","o","u","n","t","/","n","e","w">>, <<>>) }

InitClassify ==
  /\ location = PageLocation
  /\ storedSettings = DefaultSettings
  /\ store = <<>>
  /\ extensionSettings \in {DefaultSettings, Settings(TRUE, TRUE, 30, <<>>, FALSE)}
  /\ pc = "classify"
  /\ \E form \in ClassifyForms : forms = [f \in {1} |-> form]
  /\ docForms = <<1>>
  /\ listeners = [f \in {1} |-> 0]
  /\ timers = [f \in {1} |-> 0]
  /\ records = <<>>
  /\ reads = <<>>
  /\ noticeVisible = FALSE
  /\ now = 0
  /\ events = 0
  /\ loads = 1
  /\ original = <<>>
  /\ purge = PurgeIdle
  /\ clearing = ClearIdle
  /\ last = NoEvent

(* a control is appended to the form *)
AppendControl ==
  /\ Len(forms[1].controls) < MaxControls
  /\ \E el \in ClassifyControls : forms' = [forms EXCEPT ![1].controls = Append(@, el)]
  /\ last' = NoEvent
  /\ UNCHANGED << location, storedSettings, store, extensionSettings, pc, docForms, listeners,
                  timers, records, reads, noticeVisible, now, events, loads, original,
                  purge, clearing >>

(* isLoginForm(form) is called *)
CallIsLoginForm ==
  /\ last' = [NoEvent EXCEPT !.kind = "isLoginForm", !.form = 1,
                             !.result = isLoginForm(forms[1], extensionSettings)]
  /\ UNCHANGED << location, storedSettings, store, extensionSettings, pc, forms, docForms,
                  listeners, timers, records, reads, noticeVisible, now, events, loads,
                  original,
                  purge, clearing >>

NextClassify == AppendControl \/ CallIsLoginForm

SpecClassify == InitClassify /\ [][NextClassify]_vars

(***************************************************************************)
(* shouldSaveField on its own (specification SpecEligible).                *)
(***************************************************************************)
EligibleControls ==
  { Ctl(tag, type, <<"n">>, sEmpty, <<"v">>, FALSE, ac, ar) :
      tag \in {sInput, sTextarea, sSelect},
      type \in {sEmpty, sText, sEmail, sCheckbox, sPassword, sHidden, sFile,
                <<"P","a","s","s","w","o","r","d">>, <<"H","I","D","D","E","N">>},
      ac \in {"", "on", "off"},
      ar \in {"null", "true", "false", "False"} }

InitEligible ==
  /\ location = PageLocation
  /\ storedSettings = DefaultSettings
  /\ store = <<>>
  /\ extensionSettings = DefaultSettings
  /\ pc = "eligible"
  /\ \E el \in EligibleControls :
       forms = [f \in {1} |-> Form(sContact, sEmpty, sEmpty, sEmpty, <<el>>)]
  /\ docForms = <<1>>
  /\ listeners = [f \in {1} |-> 0]
  /\ timers = [f \in {1} |-> 0]
  /\ records = <<>>
  /\ reads = <<>>
  /\ noticeVisible = FALSE
  /\ now = 0
  /\ events = 0
  /\ loads = 1
  /\ original = <<>>
  /\ purge = PurgeIdle
  /\ clearing = ClearIdle
  /\ last = NoEvent

(* shouldSaveField(el) is called *)
CallShouldSaveField ==
  /\ last' = [NoEvent EXCEPT !.kind = "shouldSaveField", !.form = 1,
                             !.result = shouldSaveField(forms[1].controls[1])]
  /\ UNCHANGED << location, storedSettings, store, extensionSettings, pc, forms, docForms,
                  listeners, timers, records, reads, noticeVisible, now, events, loads,
                  original,
                  purge, clearing >>

NextEligible == CallShouldSaveField

SpecEligible == InitEligible /\ [][NextEligible]_vars

(***************************************************************************)
(* getFormKey on its own (specification SpecKey): forms with and without   *)
(* id and name come and go, the query string and the fragment change.      *)
(***************************************************************************)
KeyFormIds == {1, 2, 3}

KeyForms ==
  { Form(sContact, sEmpty, sEmpty, sEmpty, <<>>),
    Form(sEmpty, <<"s","e","a","r","c","h">>, sEmpty, sEmpty, <<>>),
    Form(<<"a">>, <<"b">>, sEmpty, sEmpty, <<>>),
    Form(<<"1">>, sEmpty, sEmpty, sEmpty, <<>>),
    Form(sEmpty, sEmpty, sEmpty, sEmpty, <<>>) }

Searches == {sEmpty, <<"?","q","=","1">>}
Hashes == {sEmpty, <<"#","x">>}

InitKey ==
  /\ location \in {[PageLocation EXCEPT !.search = q, !.hash = h] :
                     q \in Searches, h \in Hashes}
  /\ storedSettings = DefaultSettings
  /\ store = <<>>
  /\ extensionSettings = DefaultSettings
  /\ pc = "key"
  /\ forms \in [KeyFormIds -> KeyForms]
  /\ docForms = <<1, 2, 3>>
  /\ listeners = [f \in KeyFormIds |-> 0]
  /\ timers = [f \in KeyFormIds |-> 0]
  /\ records = <<>>
  /\ reads = <<>>
  /\ noticeVisible = FALSE
  /\ now = 0
  /\ events = 0
  /\ loads = 1
  /\ original = <<>>
  /\ purge = PurgeIdle
  /\ clearing = ClearIdle
  /\ last = NoEvent

(* history.pushState or a fragment link: same path, other query or fragment *)
Navigate ==
  /\ \E q \in Searches, h \in Hashes :
       /\ <<q, h>> # <<location.search, location.hash>>
       /\ location' = [location EXCEPT !.search = q, !.hash = h]
  /\ last' = NoEvent
  /\ UNCHANGED << storedSettings, store, extensionSettings, pc, forms, docForms, listeners,
                  timers, records, reads, noticeVisible, now, events, loads, original,
                  purge, clearing >>

(* getFormKey(form) is called *)
CallGetFormKey(f) ==
  /\ last' = [NoEvent EXCEPT !.kind = "getFormKey", !.form = f,
                             !.key = getFormKey(forms[f], f, docForms, location)]
  /\ UNCHANGED << location, storedSettings, store, extensionSettings, pc, forms, docForms,
                  listeners, timers, records, reads, noticeVisible, now, events, loads,
                  original,
                  purge, clearing >>

NextKey ==
  \/ \E f \in KeyFormIds : RemoveForm(f)
  \/ \E f \in KeyFormIds : InsertForm(f, "FORM")
  \/ Navigate
  \/ \E f \in KeyFormIds : CallGetFormKey(f)

SpecKey == InitKey /\ [][NextKey]_vars

(***************************************************************************)
(* Save, clear, restore (specification SpecRoundTrip): a form is saved by  *)
(* saveFormData, its controls are cleared, and restoreFormData runs on it  *)
(* with the snapshot in the store.                                         *)
(***************************************************************************)
MaxFields == 3

FieldControls ==
  { Ctl(sInput, sText, <<"a">>, sEmpty, <<"x">>, FALSE, "", "null"),
    Ctl(sInput, sText, <<"a">>, sEmpty, <<"y">>, FALSE, "", "null"),
    Ctl(sInput, sEmpty, sEmpty, sEmpty, <<"z">>, FALSE, "", "null"),
    Ctl(sInput, sCheckbox, <<"a">>, sEmpty, <<"b">>, TRUE, "", "null"),
    Ctl(sInput, sText, <<"a","_","b">>, sEmpty, <<"w">>, FALSE, "", "null"),
    Ctl(sSelect, sEmpty, sEmpty, <<"i","n","p","u","t","_","1">>, <<"v">>, FALSE, "", "null"),
    Ctl(sInput, sText, sHasOwnProperty, sEmpty, <<"h">>, FALSE, "", "null"),
    Ctl(sInput, sText, sProto, sEmpty, <<"p">>, FALSE, "", "null"),
    Ctl(sInput, sRadio, <<"r">>, sEmpty, <<"1">>, TRUE, "", "null"),
    Ctl(sInput, sRadio, <<"r">>, sEmpty, <<"2">>, FALSE, "", "null"),
    Ctl(sInput, sHidden, <<"c">>, sEmpty, <<"t">>, FALSE, "", "null"),
    Ctl(sTextarea, sEmpty, sEmpty, sEmpty, <<"n">>, FALSE, "", "null") }

(* a radio group has at most one checked button *)
RadioGroupsValid(controls) ==
  \A i, j \in 1..Len(controls) :
    ( /\ i # j
      /\ ElType(controls[i]) = sRadio /\ ElType(controls[j]) = sRadio
      /\ controls[i].name = controls[j].name
      /\ controls[i].checked )
    => ~controls[j].checked

FieldForms ==
  { Form(id, sEmpty, sEmpty, sEmpty, <<>>) : id \in {sContact, sLogin} }

InitRoundTrip ==
  /\ location = PageLocation
  /\ storedSettings = DefaultSettings
  /\ store = <<>>
  /\ extensionSettings \in {DefaultSettings, Settings(TRUE, TRUE, 30, <<>>, FALSE)}
  /\ pc = "filling"
  /\ \E form \in FieldForms : forms = [f \in {1} |-> form]
  /\ docForms = <<1>>
  /\ listeners = [f \in {1} |-> 0]
  /\ timers = [f \in {1} |-> 0]
  /\ records = <<>>
  /\ reads = <<>>
  /\ noticeVisible = FALSE
  /\ now = 0
  /\ events = 0
  /\ loads = 1
  /\ original = <<>>
  /\ purge = PurgeIdle
  /\ clearing = ClearIdle
  /\ last = NoEvent

(* the page adds a filled-in control to the form *)
AddField ==
  /\ pc = "filling"
  /\ Len(forms[1].controls) < MaxFields
  /\ \E el \in FieldControls :
       /\ RadioGroupsValid(Append(forms[1].controls, el))
       /\ forms' = [forms EXCEPT ![1].controls = Append(@, el)]
  /\ UNCHANGED << location, storedSettings, store, extensionSettings, pc, docForms, listeners,
                  timers, records, reads, noticeVisible, now, events, loads, original, last,
                  purge, clearing >>

(* saveFormData(form) runs *)
SaveForm ==
  /\ pc = "filling"
  /\ LET r == saveFormData(1, forms[1], extensionSettings)
     IN /\ store' = r.store
        /\ last' = r.event
  /\ original' = forms[1].controls
  /\ pc' = "saved"
  /\ UNCHANGED << location, storedSettings, extensionSettings, forms, docForms, listeners,
                  timers, records, reads, noticeVisible, now, events, loads,
                  purge, clearing >>

(* a control with its value cleared *)
Cleared(el) == [el EXCEPT !.value = IF IsCheckable(el) THEN @ ELSE sEmpty, !.checked = FALSE]

(* the values of the form are cleared, as on a fresh load of the page *)
ClearForm ==
  /\ pc = "saved"
  /\ forms' = [forms EXCEPT ![1].controls =
                 [i \in 1..Len(forms[1].controls) |-> Cleared(forms[1].controls[i])]]
  /\ pc' = "cleared"
  /\ last' = NoEvent
  /\ UNCHANGED << location, storedSettings, store, extensionSettings, docForms, listeners,
                  timers, records, reads, noticeVisible, now, events, loads, original,
                  purge, clearing >>

(* restoreFormData(form) runs; its callback is RestoreCallback *)
RestoreForm ==
  /\ pc = "cleared"
  /\ LET st == restoreFormData([forms |-> forms, listeners |-> listeners, reads |-> reads],
                               1, extensionSettings)
     IN reads' = st.reads
  /\ pc' = "restoring"
  /\ last' = NoEvent
  /\ UNCHANGED << location, storedSettings, store, extensionSettings, forms, docForms,
                  listeners, timers, records, noticeVisible, now, events, loads, original,
                  purge, clearing >>

NextRoundTrip == AddField \/ SaveForm \/ ClearForm \/ RestoreForm \/ RestoreCallback

SpecRoundTrip == InitRoundTrip /\ [][NextRoundTrip]_vars

(***************************************************************************)
(* Properties of the page (specification Spec).                            *)
(***************************************************************************)
(* the loaded settings have ignoreLoginForms true *)
IgnoringLoginForms == pc = "observing" /\ ~LoginOptOut(extensionSettings)

(* C1: with ignoreLoginForms true, no snapshot is written for a form that  *)
(* is a login form when the debounced save runs, and no restored value is  *)
(* assigned into a form that is a login form when the assignment happens,  *)
(* also when the form became a login form after it was discovered.         *)
C1_LoginFormsNeverPersisted ==
  IgnoringLoginForms =>
    /\ (last.kind = "save" => ~last.login)
    /\ (last.kind = "restore" /\ last.assigned > 0 => ~last.login)

(* a control the eligibility rules exclude, in the words of the rules *)
ExcludedControl(el) ==
  \/ el.tag = sInput /\ toLowerCase(el.type) \in {sPassword, sHidden, sFile}
  \/ el.autocomplete = "off"
  \/ el.autorecovery = "false"

(* C2: every entry of a snapshot written by saveFormData is the value of a *)
(* control that, at the time of the save, is none of: an input of type     *)
(* password, hidden or file, a control with autocomplete "off", a control  *)
(* with data-autorecovery "false"; whatever the settings.                  *)
C2_NoExcludedFieldInSnapshot ==
  last.kind = "save" =>
    /\ last.key \in DOMAIN store
    /\ store[last.key].data = last.data
    /\ \A k \in DOMAIN last.data :
         \E i \in 1..Len(last.controls) :
           /\ ~ExcludedControl(last.controls[i])
           /\ FieldKey(last.controls[i], i - 1) = k
           /\ Recorded(last.controls[i]) = last.data[k]

(* a form with a password input and a hidden input was saved (ignoreLoginForms false) *)
C2_Witness ==
  /\ last.kind = "save"
  /\ \E i \in 1..Len(last.controls) : IsPasswordInput(last.controls[i])
  /\ \E i \in 1..Len(last.controls) : TypeAttr(last.controls[i]) = sHidden
  /\ \E i \in 1..Len(last.controls) : last.controls[i].autocomplete = "off"
  /\ DOMAIN last.data # {}

(* C8: when the read of restoreFormData completes on a snapshot older than *)
(* retentionDays days (any timestamp, any positive retentionDays), no      *)
(* control is assigned, no notice is shown and the key is removed.         *)
C8_ExpiredSnapshotIsRemoved ==
  ( /\ last.kind = "restore"
    /\ last.found
    /\ extensionSettings.retentionDays > 0
    /\ now - last.timestamp > extensionSettings.retentionDays * TicksPerDay )
  => ( /\ last.assigned = 0
       /\ ~last.noticeShown
       /\ last.removed
       /\ last.key \notin DOMAIN store )

(* C9, as claimed: a restore surfaces a notice exactly when it assigned at *)
(* least one field, also when several forms are restored close together.  *)
C9_NoticeOncePerRestore ==
  last.kind = "restore" => (last.noticeShown <=> last.assigned > 0)

(* C9, amended: a restore that assigns at least one field surfaces a       *)
(* notice unless one is still visible, and then adds none; a notice is     *)
(* visible after it either way; a restore that assigns nothing surfaces    *)
(* none.                                                                   *)
C9_NoticeUnlessVisible ==
  last.kind = "restore" =>
    /\ last.noticeShown <=> (last.assigned > 0 /\ ~last.noticeBefore)
    /\ last.assigned > 0 => noticeVisible
    /\ last.assigned = 0 => noticeVisible = last.noticeBefore

(* a second form is restored while the notice of the first is visible *)
C9_Witness ==
  last.kind = "restore" /\ last.assigned > 0 /\ last.noticeBefore

(* C10: whatever discovery events a form instance went through, it has at  *)
(* most one debounced save handler, and an edit leaves at most one timer   *)
(* pending on it.                                                          *)
C10_AttachOnce ==
  \A f \in FormIds : listeners[f] <= 1 /\ timers[f] <= 1

(* a form found by the initial scan and again after removal and insertion  *)
(* (both reads still in flight) was edited                                 *)
C10_Witness ==
  \E f \in FormIds :
    /\ Cardinality({i \in 1..Len(reads) : reads[i].form = f}) >= 2
    /\ listeners[f] = 1
    /\ timers[f] = 1

(***************************************************************************)
(* Properties of isLoginForm (specification SpecClassify).                 *)
(***************************************************************************)
(* the form has an input of type password *)
HasPasswordInput(form) ==
  \E i \in 1..Len(form.controls) :
    form.controls[i].tag = sInput /\ toLowerCase(form.controls[i].type) = sPassword

(* C3: for a form with an input of type password, isLoginForm returns true *)
(* when ignoreLoginForms is true and false when it is false, whatever the  *)
(* form's id, name, class, action and other controls.                      *)
C3_PasswordRule ==
  (last.kind = "isLoginForm" /\ HasPasswordInput(forms[1]))
    => (last.result <=> extensionSettings.ignoreLoginForms)

(* a form with a password input and a keyword in its class, opted out *)
C3_Witness ==
  /\ last.kind = "isLoginForm"
  /\ HasPasswordInput(forms[1])
  /\ Len(forms[1].controls) >= 2
  /\ forms[1].class # sEmpty
  /\ ~extensionSettings.ignoreLoginForms
  /\ ~last.result

(* one of the four attributes, lower-cased, contains a keyword *)
HasKeyword(form) ==
  \E a \in {form.id, form.name, form.class, form.action} :
    \E k \in keywords : includes(toLowerCase(a), k)

(* the name or the id of the control, lower-cased, contains the word *)
NameOrIdHas(el, word) ==
  includes(toLowerCase(el.name), word) \/ includes(toLowerCase(el.id), word)

(* the rule of C4, with the types counted by T as a parameter *)
StructuralRule(form, textTypes) ==
  LET all == {i \in 1..Len(form.controls) : form.controls[i].tag = sInput}
      N == Cardinality(all)
      T == Cardinality({i \in all : \/ toLowerCase(form.controls[i].type) \in textTypes
                                    \/ form.controls[i].type = sEmpty})
      E == Cardinality({i \in all : \/ toLowerCase(form.controls[i].type) = sEmail
                                    \/ NameOrIdHas(form.controls[i], sEmail)})
      U == Cardinality({i \in all : \/ NameOrIdHas(form.controls[i], sUser)
                                    \/ NameOrIdHas(form.controls[i], sLogin)})
      noTextarea == \A i \in 1..Len(form.controls) : form.controls[i].tag # sTextarea
  IN \/ HasKeyword(form)
     \/ noTextarea /\ ((E >= 1 /\ T <= 1 /\ N <= 3) \/ (U >= 1 /\ N <= 3))

(* the forms C4 is about *)
StructuralCase ==
  /\ last.kind = "isLoginForm"
  /\ ~HasPasswordInput(forms[1])
  /\ extensionSettings.ignoreLoginForms

(* C4, as claimed: without a password input and with ignoreLoginForms      *)
(* true, isLoginForm returns true exactly when an attribute contains a     *)
(* keyword or the form has no textarea and (E >= 1, T <= 1, N <= 3) or     *)
(* (U >= 1, N <= 3), T counting the types text, email, tel, number and the *)
(* absent type.                                                            *)
C4_StructuralRuleAsClaimed ==
  StructuralCase =>
    (last.result <=> StructuralRule(forms[1], {sText, sEmail, sTel, sNumber}))

(* C4, amended: the same with T counting the type phone as well; a form    *)
(* whose only input is of type email and named email is a login form.      *)
C4_StructuralRule ==
  StructuralCase =>
    /\ last.result <=> StructuralRule(forms[1], {sText, sEmail, sTel, sPhone, sNumber})
    /\ ( /\ Len(forms[1].controls) = 1
         /\ forms[1].controls[1].tag = sInput
         /\ forms[1].controls[1].type = sEmail
         /\ forms[1].controls[1].name = sEmail ) => last.result

(* an email input and an input of type phone, nothing else: not a login    *)
(* form, because the phone input is the second text-like input             *)
C4_Witness ==
  /\ StructuralCase
  /\ ~HasKeyword(forms[1])
  /\ Len(forms[1].controls) = 2
  /\ \E i \in 1..2 : forms[1].controls[i].type = sEmail
  /\ \E i \in 1..2 : forms[1].controls[i].type = sPhone
  /\ ~last.result

(***************************************************************************)
(* Properties of shouldSaveField (specification SpecEligible).             *)
(***************************************************************************)
(* C5: shouldSaveField returns false for an input of type password, hidden *)
(* or file and for a control with autocomplete "off" or data-autorecovery  *)
(* "false", and true for every other input, textarea or select.            *)
C5_Eligibility ==
  last.kind = "shouldSaveField" =>
    LET el == forms[1].controls[1]
    IN /\ ExcludedControl(el) => ~last.result
       /\ (~ExcludedControl(el) /\ el.tag \in {sInput, sTextarea, sSelect}) => last.result

(* a select excluded only by data-autorecovery "false" *)
C5_Witness ==
  /\ last.kind = "shouldSaveField"
  /\ forms[1].controls[1].tag = sSelect
  /\ forms[1].controls[1].autocomplete = "on"
  /\ forms[1].controls[1].autorecovery = "false"
  /\ ~last.result

(***************************************************************************)
(* Properties of getFormKey (specification SpecKey).                       *)
(***************************************************************************)
(* the string is a decimal numeral without sign or leading zeros *)
IsDecimal(s) ==
  /\ s # sEmpty
  /\ \A i \in 1..Len(s) : \E d \in 1..10 : s[i] = Digits[d]
  /\ Len(s) > 1 => s[1] # "0"

(* the number a decimal numeral denotes *)
RECURSIVE DecimalValue(_)
DecimalValue(s) ==
  IF s = sEmpty THEN 0
  ELSE 10 * DecimalValue(SubSeq(s, 1, Len(s) - 1))
         + ((CHOOSE d \in 1..10 : s[Len(s)] = Digits[d]) - 1)

(* the zero-based index of form f in document.forms *)
IndexInDocument(f) == (CHOOSE i \in 1..Len(docForms) : docForms[i] = f) - 1

ExplicitNames(form) == {form.id, form.name} \ {sEmpty}

(* C15: two distinct forms of the page that share no explicit id or name   *)
(* always have different FormKeys, whatever their ids, names and positions.*)
C15_FormKeyUnique ==
  \A f, g \in KeyFormIds :
    ( /\ f # g
      /\ InDocument(f)
      /\ InDocument(g)
      /\ ExplicitNames(forms[f]) \cap ExplicitNames(forms[g]) = {}
      /\ last.kind = "getFormKey"
      /\ last.form = f )
    => last.key # getFormKey(forms[g], g, docForms, location)

(***************************************************************************)
(* Properties of save, clear, restore (specification SpecRoundTrip).       *)
(***************************************************************************)
(* the callback of the restore has run on a form that is not a login form  *)
RoundTripDone ==
  /\ pc = "restoring"
  /\ reads = <<>>
  /\ last.kind = "restore"
  /\ ~isLoginForm(forms[1], extensionSettings)

(* the eligible controls of the form as it was saved *)
EligibleAt(i) == IsSupportedTag(original[i]) /\ ~ExcludedControl(original[i])

EligibleFields == {i \in 1..Len(original) : EligibleAt(i)}

(* every eligible control holds what it held at the save, and n controls   *)
(* were assigned                                                           *)
RoundTrip ==
  /\ \A i \in EligibleFields :
       /\ forms[1].controls[i].value = original[i].value
       /\ forms[1].controls[i].checked = original[i].checked
  /\ last.assigned = Cardinality(EligibleFields)

DistinctFieldKeys ==
  /\ \A i, j \in EligibleFields :
       i # j => FieldKey(original[i], i - 1) # FieldKey(original[j], j - 1)
  /\ \A i \in EligibleFields :
       FieldKey(original[i], i - 1) \notin {sHasOwnProperty, sProto}

Written(f) ==
  LET key == getFormKey(forms[f], f, docForms, location)
  IN /\ key \in DOMAIN store'
     /\ store'[key] = [data |-> SnapshotData(forms[f]), timestamp |-> now]
     /\ \A k \in DOMAIN store' \ {key} : k \in DOMAIN store /\ store'[k] = store[k]

(* the step put a snapshot into the store or replaced one *)
SomeWrite ==
  \E k \in DOMAIN store' : k \notin DOMAIN store \/ store'[k] # store[k]

(* an edit of a monitored form leaves its timer pending and writes nothing *)
EditSchedules ==
  \A f \in FormIds :
    (Edit(f) /\ listeners[f] = 1) => (timers'[f] = 1 /\ store' = store)

(* a write happens only as a pending timer fires *)
WriteOnlyOnTimeout ==
  SomeWrite => \E f \in FormIds : TimerFire(f) /\ timers[f] = 1 /\ timers'[f] = 0

(* C11, as claimed: an edit of a monitored form takes its state machine to *)
(* pending (again, from pending) without a write; the timeout takes it to  *)
(* idle with exactly one write, of the form's values at that time; no      *)
(* write happens at any other step.                                        *)
C11_TrailingDebounceAsClaimed ==
  [][ /\ EditSchedules
      /\ WriteOnlyOnTimeout
      /\ \A f \in FormIds : TimerFire(f) => Written(f) ]_vars

(* C11, amended: the same, the timeout running saveFormData once, which    *)
(* writes the form's values at that time unless the form is then a login   *)
(* form, and writes nothing if it is.                                      *)
C11_TrailingDebounce ==
  [][ /\ EditSchedules
      /\ WriteOnlyOnTimeout
      /\ \A f \in FormIds :
           TimerFire(f) =>
             IF isLoginForm(forms[f], extensionSettings)
               THEN store' = store
               ELSE Written(f) ]_vars

(* two edits of the first form, "hi" and back to "", were followed by one  *)
(* save, of the empty value                                                *)
C11_Witness ==
  /\ last.kind = "save"
  /\ last.form = 1
  /\ events = 2
  /\ loads = 1
  /\ forms[1].controls[1].value = sEmpty
  /\ last.data[sMsg] = JsString(sEmpty)
  /\ timers[1] = 0

(* a storage read of form f's snapshot is in flight *)
ReadInFlight(f) == \E i \in 1..Len(reads) : reads[i].form = f

(* C16: a form instance is restored once, when it is discovered: no later  *)
(* event (its removal and re-insertion, reported again by the observer)    *)
(* issues another snapshot read for a form this page already discovered.   *)
C16_RestoreOncePerForm ==
  [][\A f \in FormIds :
       forms[f].attached =>
         Cardinality({i \in 1..Len(reads') : reads'[i].form = f})
           <= Cardinality({i \in 1..Len(reads) : reads[i].form = f})]_vars

(* C17: restore precedes monitoring: while the snapshot read of a form is  *)
(* in flight, no edit of that form is handled, so that no save of it is    *)
(* scheduled before the restored values are assigned.                      *)
C17_RestoreBeforeMonitoring ==
  \A f \in FormIds : ReadInFlight(f) => timers[f] = 0

(***************************************************************************)
(* Liveness (specification SpecLive): the page, its forms staying in the   *)
(* document, with timers and storage callbacks that run when they can.     *)
(***************************************************************************)
NextLive ==
  \/ LoadSettingsCallback
  \/ \E f \in FormIds : AddPasswordInput(f)
  \/ \E f \in FormIds : Edit(f)
  \/ \E f \in FormIds : TimerFire(f)
  \/ RestoreCallback
  \/ NoticeTimeout
  \/ AdvanceClock
  \/ Reload

(* WF_vars(LoadSettingsCallback) and WF_vars(RestoreCallback) with ENABLED *)
(* written out: the first is enabled exactly when pc = "loading", the      *)
(* second exactly when a read is in flight and no observer callback is due *)
LoadSettingsFair ==
  []<>(pc # "loading") \/ []<><<LoadSettingsCallback>>_vars

RestoreCallbackFair ==
  []<>(reads = <<>> \/ records # <<>>) \/ []<><<RestoreCallback>>_vars

SpecLive ==
  /\ Init
  /\ [][NextLive]_vars
  /\ \A f \in FormIds : WF_vars(TimerFire(f))
  /\ LoadSettingsFair
  /\ RestoreCallbackFair

(* the settings the next load will run with *)
SettingsAtLoad == IF storedSettings.stored THEN storedSettings ELSE DefaultSettings

FormKeyOf(f) == getFormKey(forms[f], f, docForms, location)

(* an edit of monitored, non-login form f waits for its timer *)
EditPending(f) ==
  /\ pc = "observing"
  /\ timers[f] = 1
  /\ ~isLoginForm(forms[f], extensionSettings)

(* the store holds the values of the eligible fields of f under its key *)
SnapshotStored(f) ==
  /\ last.kind = "save"
  /\ last.form = f
  /\ FormKeyOf(f) \in DOMAIN store
  /\ store[FormKeyOf(f)].data = SnapshotData(forms[f])

(* the page is loading, enabled and not ignored, with a snapshot of f that *)
(* has not expired and the form as the page delivers it                    *)
LoadingWithSnapshot(f) ==
  /\ pc = "loading"
  /\ ~Suppressed(SettingsAtLoad)
  /\ ~isLoginForm(forms[f], SettingsAtLoad)
  /\ FormKeyOf(f) \in DOMAIN store
  /\ DOMAIN store[FormKeyOf(f)].data # {}
  /\ ~IsExpired(store[FormKeyOf(f)], SettingsAtLoad, now)

(* the callback of the restore of f assigned the stored values, and the    *)
(* notice is up: fired by this restore, once, unless one was up already    *)
Restored(f) ==
  /\ last.kind = "restore"
  /\ last.form = f
  /\ last.assigned > 0
  /\ \A k \in DOMAIN last.data :
       \E i \in 1..Len(forms[f].controls) :
         /\ FieldKey(forms[f].controls[i], i - 1) = k
         /\ Recorded(forms[f].controls[i]) = last.data[k]
  /\ noticeVisible
  /\ last.noticeShown <=> ~last.noticeBefore

(* the page changed the form, or the snapshot has expired meanwhile *)
Disturbed(f) ==
  \/ Len(forms[f].controls) # Len(PageForms[f].controls)
  \/ FormKeyOf(f) \in DOMAIN store /\ IsExpired(store[FormKeyOf(f)], SettingsAtLoad, now)

(* C12: an edit of a monitored non-login form is eventually followed by a  *)
(* stored snapshot of the form's eligible values under its key, unless the *)
(* page is unloaded or the form becomes a login form first; and a load of  *)
(* the enabled, non-ignored page with an unexpired snapshot of the form    *)
(* eventually restores the stored values and shows the notice, unless the  *)
(* page disturbs the form or the snapshot expires first.                   *)
C12_EventualSaveAndRestore ==
  \A f \in FormIds :
    /\ EditPending(f) ~>
         (SnapshotStored(f) \/ pc = "loading" \/ isLoginForm(forms[f], extensionSettings))
    /\ LoadingWithSnapshot(f) ~> (Restored(f) \/ Disturbed(f))

(* "hi" was typed into msg and saved, the page was loaded again and the    *)
(* value restored, with one notice                                         *)
C12_Witness ==
  /\ Restored(1)
  /\ loads = 2
  /\ last.data[sMsg] = JsString(sHi)
  /\ forms[1].controls[1].value = sHi
  /\ last.noticeShown

(***************************************************************************)
(* Settings (specification SpecSettings): the stored settings may lack     *)
(* fields, and the popup or the options page saves settings while the page *)
(* is open.                                                                *)
(***************************************************************************)
(* a stored record that lacks one field *)
Lacking(field) == [DefaultSettings EXCEPT !.missing = {field}]

MalformedSettingsChoices ==
  { Lacking("enabled"), Lacking("retentionDays"), Lacking("ignoreDomains"),
    Lacking("ignoreLoginForms") }

(* what savePopupSettings and saveSettings write: all four fields *)
SavedSettingsChoices == {s \in StoredSettingsChoices : s.stored}

(* savePopupSettings, popup.js:154-174, or saveSettings, options.js:34-49 *)
SaveSettings ==
  /\ events < MaxEvents
  /\ \E s \in SavedSettingsChoices :
       /\ s # storedSettings
       /\ storedSettings' = s
  /\ events' = events + 1
  /\ last' = NoEvent
  /\ UNCHANGED << location, store, extensionSettings, pc, forms, docForms, listeners,
                  timers, records, reads, noticeVisible, now, loads, original,
                  purge, clearing >>

InitSettings ==
  /\ location = PageLocation
  /\ storedSettings \in StoredSettingsChoices \cup MalformedSettingsChoices
  /\ store = <<>>
  /\ extensionSettings = DefaultSettings
  /\ pc = "loading"
  /\ forms = PageForms
  /\ docForms = PageDocForms
  /\ listeners = [f \in FormIds |-> 0]
  /\ timers = [f \in FormIds |-> 0]
  /\ records = <<>>
  /\ reads = <<>>
  /\ noticeVisible = FALSE
  /\ now = 0
  /\ events = 0
  /\ loads = 1
  /\ original = <<>>
  /\ purge = PurgeIdle
  /\ clearing = ClearIdle
  /\ last = NoEvent

NextSettings ==
  \/ LoadSettingsCallback
  \/ ObserverCallback
  \/ \E f \in FormIds : RemoveForm(f)
  \/ \E f \in FormIds : InsertForm(f, "FORM")
  \/ \E f \in FormIds : Edit(f)
  \/ \E f \in FormIds : TimerFire(f)
  \/ RestoreCallback
  \/ SaveSettings
  \/ Reload

SpecSettings == InitSettings /\ [][NextSettings]_vars

(***************************************************************************)
(* Properties of the settings (specification SpecSettings).                *)
(***************************************************************************)
(* the page does nothing: no read in flight, no handler, no timer, no      *)
(* mutation record queued for an observer                                  *)
Inert ==
  /\ reads = <<>>
  /\ records = <<>>
  /\ \A f \in FormIds : listeners[f] = 0 /\ timers[f] = 0 /\ ~forms[f].attached

(* the hostname is one of the ignored domains of the settings *)
Ignored(settings) ==
  \E i \in 1..Len(settings.ignoreDomains) : settings.ignoreDomains[i] = location.hostname

(* C13: a page whose loaded (complete) settings are disabled or list its   *)
(* hostname is suppressed by initialization and stays so until the next    *)
(* load: it issues no read, write or remove and attaches no handler or     *)
(* watcher, whatever forms are inserted and whatever settings are saved;   *)
(* a page initialized as enabled keeps its cached settings and keeps       *)
(* saving when the stored settings are changed to disabled or ignored.     *)
C13_SuppressionDecidedAtInit ==
  [][ /\ (LoadSettingsCallback /\ extensionSettings'.missing = {}) =>
           (pc' = "suppressed" <=>
              (~extensionSettings'.enabled \/ Ignored(extensionSettings')))
      /\ (LoadSettingsCallback /\ extensionSettings'.missing = {}) =>
           (pc' = "observing" <=>
              (extensionSettings'.enabled /\ ~Ignored(extensionSettings')))
      /\ pc = "suppressed" =>
           /\ Inert
           /\ pc' = "suppressed" \/ Reload
           /\ store' = store
      /\ (pc = "observing" /\ SaveSettings) =>
           /\ pc' = "observing"
           /\ extensionSettings' = extensionSettings
           /\ listeners' = listeners
      /\ \A f \in FormIds :
           (pc = "observing" /\ TimerFire(f) /\ ~isLoginForm(forms[f], extensionSettings))
             => Written(f) ]_vars

(* a suppressed page had a form inserted and edited and enabling settings  *)
(* saved, and is still inert                                               *)
C13_Witness ==
  /\ pc = "suppressed"
  /\ loads = 1
  /\ events >= 3
  /\ ~Suppressed(storedSettings)
  /\ docForms = <<2, 1>>
  /\ forms[1].controls[1].value = sHi
  /\ store = <<>>

(* a page initialized as enabled saved a form after the stored settings    *)
(* were changed to disabled                                                *)
C13_WitnessEnabled ==
  /\ pc = "observing"
  /\ loads = 1
  /\ ~storedSettings.enabled
  /\ last.kind = "save"

(* C14: when the settings key is absent or the stored record lacks a       *)
(* field, initialization completes without an error and the page runs with *)
(* the default of each missing field: enabled true, retentionDays 30,      *)
(* ignoreDomains empty, ignoreLoginForms true.                             *)
C14_MissingSettingsUseDefaults ==
  (pc # "loading" /\ (~storedSettings.stored \/ storedSettings.missing # {})
     /\ extensionSettings.missing = storedSettings.missing)
  => /\ pc # "failed"
     /\ pc = "observing"
     /\ RetentionMs(extensionSettings) = 30 * TicksPerDay
     /\ ~LoginOptOut(extensionSettings)

(***************************************************************************)
(* Discovery (specification SpecDiscovery): a page whose script builds and *)
(* inserts forms after the content script started; a form outside the      *)
(* document is an element the script has created and not yet inserted.     *)
(***************************************************************************)
InitDiscovery ==
  /\ location = PageLocation
  /\ storedSettings \in StoredSettingsChoices
  /\ store = <<>>
  /\ extensionSettings = DefaultSettings
  /\ pc = "loading"
  /\ forms = PageForms
  /\ docForms \in {<<>>, <<1>>, <<2>>, PageDocForms}
  /\ listeners = [f \in FormIds |-> 0]
  /\ timers = [f \in FormIds |-> 0]
  /\ records = <<>>
  /\ reads = <<>>
  /\ noticeVisible = FALSE
  /\ now = 0
  /\ events = 0
  /\ loads = 1
  /\ original = <<>>
  /\ purge = PurgeIdle
  /\ clearing = ClearIdle
  /\ last = NoEvent

NextDiscovery ==
  \/ LoadSettingsCallback
  \/ ObserverCallback
  \/ \E f \in FormIds : RemoveForm(f)
  \/ \E f \in FormIds : InsertForm(f, "FORM")
  \/ \E f \in FormIds : InsertForm(f, "DIV")
  \/ \E f, g \in FormIds : InsertNested(f, g)
  \/ \E f \in FormIds : AddPasswordInput(f)
  \/ RestoreCallback

SpecDiscovery == InitDiscovery /\ [][NextDiscovery]_vars

(* the number of snapshot reads of form f in the queue rs of reads *)
ReadsOf(rs, f) == Cardinality({i \in 1..Len(rs) : rs[i].form = f})

(* the number of queued added nodes that are form f *)
AddedAsNode(f) ==
  Cardinality({i \in 1..Len(records) : records[i].tagName = "FORM" /\ records[i].form = f})

(* the number of queued added nodes, of the given tags, that hold form f *)
AddedInside(f, tagNames) ==
  Cardinality({i \in 1..Len(records) :
                 /\ records[i].tagName \in tagNames
                 /\ \E j \in 1..Len(records[i].nested) : records[i].nested[j] = f})

(* the observer's callback, having met form f n times among the added      *)
(* nodes, classifies it; a login form gets nothing, another form gets one  *)
(* restore read each time and its edit handler                             *)
DiscoveredTimes(f, n) ==
  IF isLoginForm(forms[f], extensionSettings) \/ n = 0
    THEN /\ ReadsOf(reads', f) = ReadsOf(reads, f)
         /\ listeners'[f] = listeners[f]
         /\ forms'[f] = forms[f]
    ELSE /\ ReadsOf(reads', f) = ReadsOf(reads, f) + n
         /\ listeners'[f] = 1
         /\ forms'[f].attached

(* C18 as claimed: every inserted form, the added node itself or nested    *)
(* inside an added node of any kind, is classified, restored and monitored *)
(* unless it is a login form.                                              *)
C18_DynamicDiscoveryAsClaimed ==
  [][ObserverCallback =>
       \A f \in FormIds :
         DiscoveredTimes(f, AddedAsNode(f) + AddedInside(f, {"FORM", "DIV"}))]_vars

(* C18: every inserted form that is the added node itself, or is nested    *)
(* inside an added node that is not a form, is classified and, unless it   *)
(* is a login form, has a restore read issued and its edit handler         *)
(* attached; a login form gets neither, and a form nested inside an added  *)
(* FORM node is not looked at.                                             *)
C18_DynamicDiscovery ==
  [][ObserverCallback =>
       \A f \in FormIds :
         DiscoveredTimes(f, AddedAsNode(f) + AddedInside(f, {"DIV"}))]_vars

(* the observer's callback has just discovered form 1, a fresh form        *)
(* inserted inside another element, and passed over form 2, inserted as a  *)
(* login form                                                              *)
C18_Witness ==
  /\ pc = "observing"
  /\ records = <<>>
  /\ docForms = <<1, 2>>
  /\ events = 3
  /\ forms[1].attached
  /\ listeners[1] = 1
  /\ ReadsOf(reads, 1) = 1
  /\ isLoginForm(forms[2], extensionSettings)
  /\ ~forms[2].attached
  /\ listeners[2] = 0
  /\ ReadsOf(reads, 2) = 0

(***************************************************************************)
(* The store (specification SpecStore): the page, another tab on the same  *)
(* URL and the background script's sweep write to chrome.storage.local.    *)
(***************************************************************************)
NextStore ==
  \/ LoadSettingsCallback
  \/ \E f \in FormIds : Edit(f)
  \/ \E f \in FormIds : TimerFire(f)
  \/ RestoreCallback
  \/ AdvanceClock
  \/ OtherTabSave
  \/ purgeExpiredEntries
  \/ PurgeSettingsCallback
  \/ PurgeListCallback

SpecStore == Init /\ [][NextStore]_vars

(* the FormKey of the other tab's forms *)
OtherTabKey == getFormKey(PageForms[1], 1, PageDocForms, PageLocation)

(* the step stores under key k the record of one save: the fields of one   *)
(* form as they are at the save, and the time of the save                  *)
SingleSave(k) ==
  \/ \E f \in FormIds :
       /\ TimerFire(f)
       /\ k = getFormKey(forms[f], f, docForms, location)
       /\ store'[k] = [data |-> SnapshotData(forms[f]), timestamp |-> now]
  \/ /\ OtherTabSave
     /\ k = OtherTabKey
     /\ \E form \in OtherTabForms :
          store'[k] = [data |-> SnapshotData(form), timestamp |-> now]

(* C19: whatever the interleaving of the saves of the page and of another  *)
(* tab with the same FormKey, a step that changes the value stored under a *)
(* FormKey stores exactly the {data, timestamp} record of one save, with   *)
(* no field carried over from the snapshot it replaces.                    *)
C19_FullReplace ==
  [][\A k \in DOMAIN store' :
       (k \notin DOMAIN store \/ store'[k] # store[k]) => SingleSave(k)]_vars

(* the page has edited and saved form 1 (its timer has fired), and the     *)
(* snapshot under its key is now that of the other tab alone               *)
C19_Witness ==
  /\ pc = "observing"
  /\ loads = 1
  /\ listeners[1] = 1
  /\ timers[1] = 0
  /\ forms[1].controls[1].value = sHi
  /\ ~isLoginForm(forms[1], extensionSettings)
  /\ OtherTabKey \in DOMAIN store
  /\ DOMAIN store[OtherTabKey].data = {<<"q">>}

(* the snapshot under key k is older than the retention of the sweep *)
OutOfRetention(k) ==
  now - store[k].timestamp > purge.retentionDays * TicksPerDay

(* C20: a run of the sweep removes only snapshots that are out of the      *)
(* retention window at the moment they are removed (also one that a save   *)
(* rewrote between the sweep's listing of the store and its remove), and   *)
(* never the settings record.                                              *)
C20_SweepRemovesOnlyExpired ==
  [][PurgeListCallback =>
       /\ storedSettings' = storedSettings
       /\ \A k \in DOMAIN store : k \notin DOMAIN store' => OutOfRetention(k)]_vars

(***************************************************************************)
(* Clearing (specification SpecClear): the popup's two clear buttons and   *)
(* the background script's CLEAR_FORM_DATA message, with a store that      *)
(* holds snapshots of earlier visits to this site and to another one.      *)
(***************************************************************************)
sOtherHostname == <<"a","b",".","i","o">>

(* String.prototype.indexOf, zero-based, -1 when k does not occur in s *)
stringIndexOf(s, k) ==
  LET at == {i \in 0..(Len(s) - Len(k)) : \A j \in 1..Len(k) : s[i + j] = k[j]}
  IN IF at = {} THEN 0 - 1 ELSE CHOOSE i \in at : \A j \in at : i <= j

(* key.split('::')[0], popup.js:96 *)
UrlPart(key) ==
  IF stringIndexOf(key, sSep) < 0 THEN key ELSE SubSeq(key, 1, stringIndexOf(key, sSep))

(* new URL(urlPart).hostname, popup.js:98, for a lower-case URL with a     *)
(* scheme and an authority; the empty string stands for the TypeError of   *)
(* a string that is no URL                                                 *)
UrlHostname(url) ==
  LET sSchemeEnd == <<":","/","/">>
      i == stringIndexOf(url, sSchemeEnd)
      rest == SubSeq(url, i + 4, Len(url))
      ends == {j \in 1..Len(rest) : rest[j] \in {"/", ":", "?", "#"}}
      n == IF ends = {} THEN Len(rest) ELSE (CHOOSE j \in ends : \A l \in ends : j <= l) - 1
  IN IF i < 1 THEN sEmpty ELSE SubSeq(rest, 1, n)

(* chrome.storage.local without the settings record *)
NoSettings == Settings(FALSE, TRUE, 30, <<>>, TRUE)

(* clearAllFormData, background.js:7-12, on a CLEAR_FORM_DATA message:     *)
(* chrome.storage.local.clear()                                            *)
clearAllFormData ==
  /\ events < MaxEvents
  /\ events' = events + 1
  /\ store' = <<>>
  /\ storedSettings' = NoSettings
  /\ last' = [NoEvent EXCEPT !.kind = "clear-message", !.removed = TRUE]
  /\ UNCHANGED << location, extensionSettings, pc, forms, docForms, listeners, timers,
                  records, reads, noticeVisible, now, loads, original, purge, clearing >>

(* the popup's clear-all button, popup.js:118-128: chrome.storage.local.clear() *)
ClearAllClick ==
  /\ events < MaxEvents
  /\ events' = events + 1
  /\ store' = <<>>
  /\ storedSettings' = NoSettings
  /\ last' = [NoEvent EXCEPT !.kind = "clear-button", !.removed = TRUE]
  /\ UNCHANGED << location, extensionSettings, pc, forms, docForms, listeners, timers,
                  records, reads, noticeVisible, now, loads, original, purge, clearing >>

(* the popup's clear-site button, popup.js:82-91: the active tab's         *)
(* hostname is taken and get(null) is issued; items holds the keys of what *)
(* the read returns                                                        *)
ClearSiteClick ==
  /\ events < MaxEvents
  /\ clearing.pc = "idle"
  /\ events' = events + 1
  /\ \E domain \in {sHostname, sOtherHostname} :
       clearing' = [pc |-> "listing", domain |-> domain,
                    items |-> (DOMAIN store)
                                \cup (IF storedSettings.stored THEN {sSettingsKey} ELSE {})]
  /\ last' = NoEvent
  /\ UNCHANGED << location, storedSettings, store, extensionSettings, pc, forms, docForms,
                  listeners, timers, records, reads, noticeVisible, now, loads, original,
                  purge >>

(* keysToRemove of the clear-site handler, popup.js:92-103 *)
siteKeysToRemove(items, domain) ==
  {key \in items : key # sSettingsKey /\ UrlHostname(UrlPart(key)) = domain}

(* the callback of get(null), popup.js:91-114: remove(keysToRemove) *)
ClearSiteCallback ==
  /\ clearing.pc = "listing"
  /\ LET keys == siteKeysToRemove(clearing.items, clearing.domain)
     IN /\ store' = [k \in (DOMAIN store) \ keys |-> store[k]]
        /\ storedSettings' = IF sSettingsKey \in keys THEN NoSettings ELSE storedSettings
        /\ last' = [NoEvent EXCEPT !.kind = "clear-site", !.removed = (keys # {})]
  /\ clearing' = ClearIdle
  /\ UNCHANGED << location, extensionSettings, pc, forms, docForms, listeners, timers,
                  records, reads, noticeVisible, now, events, loads, original, purge >>

(* snapshots of earlier visits: one of this page, one of another site *)
EarlierSnapshots ==
  LET data == SnapshotData(PageForms[1])
      here == getFormKey(PageForms[1], 1, PageDocForms, PageLocation)
      there == <<"h","t","t","p","s",":","/","/">> \o sOtherHostname \o sPathname
                 \o sSep \o sContact
  IN { <<>>,
       Put(<<>>, there, [data |-> data, timestamp |-> 0]),
       Put(Put(<<>>, there, [data |-> data, timestamp |-> 0]),
           here, [data |-> data, timestamp |-> 0]) }

InitClear ==
  /\ location = PageLocation
  /\ storedSettings \in StoredSettingsChoices
  /\ store \in EarlierSnapshots
  /\ extensionSettings = DefaultSettings
  /\ pc = "loading"
  /\ forms = PageForms
  /\ docForms = PageDocForms
  /\ listeners = [f \in FormIds |-> 0]
  /\ timers = [f \in FormIds |-> 0]
  /\ records = <<>>
  /\ reads = <<>>
  /\ noticeVisible = FALSE
  /\ now = 0
  /\ events = 0
  /\ loads = 1
  /\ original = <<>>
  /\ purge = PurgeIdle
  /\ clearing = ClearIdle
  /\ last = NoEvent

NextClear ==
  \/ LoadSettingsCallback
  \/ \E f \in FormIds : Edit(f)
  \/ \E f \in FormIds : TimerFire(f)
  \/ SaveSettings
  \/ clearAllFormData
  \/ ClearAllClick
  \/ ClearSiteClick
  \/ ClearSiteCallback
  \/ Reload

SpecClear == InitClear /\ [][NextClear]_vars

(* C21: clearing all form data, by the CLEAR_FORM_DATA message or by the   *)
(* popup's clear-all button, removes every stored snapshot and leaves the  *)
(* "settings" record as it is, as clearing the current site's data does.   *)
C21_ClearAllKeepsSettings ==
  [][ /\ (clearAllFormData \/ ClearAllClick) =>
           (store' = <<>> /\ storedSettings' = storedSettings)
      /\ ClearSiteCallback => storedSettings' = storedSettings ]_vars

====
